---- MODULE Spec2Model ----
(***************************************************************************)
(* Model of the matter-setup-code library: the Base38 codec, the Verhoeff  *)
(* check digit, the bit utilities, the two bit layouts (QR and manual      *)
(* code) and the SetupPayload facade that converts between a descriptor    *)
(* and its two textual forms.                                              *)
(*                                                                         *)
(* The library is a set of pure functions.  Each is an operator computed   *)
(* the way the code computes it; a call of the library is an action that   *)
(* draws the arguments from a bounded set and records the result.          *)
(*                                                                         *)
(* Strings are sequences of characters (one-character strings), bytes are  *)
(* numbers 0..255, bit vectors are sequences of 0/1.                       *)
(***************************************************************************)
EXTENDS Integers, Sequences, FiniteSets, TLC

VARIABLES
    op,       \* the last library call made ("init" before any call)
    bytes,    \* base38: the byte sequence given to encode
    text,     \* the string last produced or supplied (encode output, parse input, ...)
    decoded,  \* base38: result of decode(text)
    digits,   \* verhoeff: the digit string given to calculate_checksum
    valid,    \* verhoeff: result of validate(text)
    payload,  \* the SetupPayload under conversion
    code,     \* result of to_qr_code_str / to_manual_code_str
    parsed,   \* result of parse_str(text)
    arg_val,       \* bit_utils: the value given to u64_to_bits_be
    arg_bits_len,  \* bit_utils: the width given to u64_to_bits_be
    bit_vec        \* bit_utils: result of u64_to_bits_be(arg_val, arg_bits_len)

vars ==
    <<op, bytes, text, decoded, digits, valid, payload, code, parsed,
      arg_val, arg_bits_len, bit_vec>>

(***************************************************************************)
(* Result<T, MatterPayloadError>, Option<T>, and an abort (panic).         *)
(***************************************************************************)
Ok(v) == [tag |-> "Ok", val |-> v]

Err(d, k, v) == [tag |-> "Err", domain |-> d, kind |-> k, val |-> v]

Panic(msg) == [tag |-> "Panic", val |-> msg]

IsOk(r) == r.tag = "Ok"

IsErr(r) == r.tag = "Err"

IsPanic(r) == r.tag = "Panic"

IsErrOf(r, d, k) == r.tag = "Err" /\ r.domain = d /\ r.kind = k

None == [some |-> FALSE]

Some(v) == [some |-> TRUE, val |-> v]

unwrap_or(o, dflt) == IF o.some THEN o.val ELSE dflt

NoResult == [tag |-> "None"]

(***************************************************************************)
(* Arithmetic helpers: powers of two, shifts and masks on naturals.        *)
(***************************************************************************)
RECURSIVE Pow2(_)
Pow2(n) == IF n = 0 THEN 1 ELSE 2 * Pow2(n - 1)

\* v >> n.  The values of the model are below 2^31, so a shift by 31 or more
\* leaves nothing.
Shr(v, n) == IF n >= 31 THEN 0 ELSE v \div Pow2(n)

Shl(v, n) == v * Pow2(n)

LowBits(v, n) == v % Pow2(n)

RECURSIVE Reverse(_)
Reverse(s) == IF s = <<>> THEN <<>> ELSE Reverse(Tail(s)) \o <<Head(s)>>

\* slice::chunks(n): consecutive runs of n elements, the last possibly shorter.
RECURSIVE Chunks(_, _)
Chunks(s, n) ==
    IF Len(s) = 0 THEN <<>>
    ELSE IF Len(s) <= n THEN <<s>>
    ELSE <<SubSeq(s, 1, n)>> \o Chunks(SubSeq(s, n + 1, Len(s)), n)

(***************************************************************************)
(* base38.rs                                                               *)
(***************************************************************************)
CODES ==
    << "0", "1", "2", "3", "4", "5", "6", "7", "8", "9", "A", "B", "C", "D", "E", "F", "G", "H", "I",
       "J", "K", "L", "M", "N", "O", "P", "Q", "R", "S", "T", "U", "V", "W", "X", "Y", "Z", "-", "." >>

RADIX == Len(CODES)

BASE38_CHARS_NEEDED_IN_CHUNK == <<2, 4, 5>>

MAX_BYTES_IN_CHUNK == 3

MAX_ENCODED_CHARS_IN_CHUNK == 5

\* chunk.iter().enumerate().fold(0, |acc, (i, byte)| acc | (byte << (i * 8))):
\* the bytes occupy disjoint bit ranges, so the bitwise or is a sum.
RECURSIVE PackLittleEndian(_, _)
PackLittleEndian(chunk, i) ==
    IF i > Len(chunk) THEN 0
    ELSE Shl(chunk[i], (i - 1) * 8) + PackLittleEndian(chunk, i + 1)

\* for _ in 0..chars_needed { push(CODES[value % RADIX]); value /= RADIX }
RECURSIVE EmitChars(_, _)
EmitChars(value, chars_needed) ==
    IF chars_needed = 0 THEN <<>>
    ELSE <<CODES[(value % RADIX) + 1]>> \o EmitChars(value \div RADIX, chars_needed - 1)

EncodeChunk(chunk) ==
    EmitChars(PackLittleEndian(chunk, 1), BASE38_CHARS_NEEDED_IN_CHUNK[Len(chunk)])

RECURSIVE EncodeChunks(_)
EncodeChunks(cs) ==
    IF cs = <<>> THEN <<>> ELSE EncodeChunk(Head(cs)) \o EncodeChunks(Tail(cs))

encode(bs) == EncodeChunks(Chunks(bs, MAX_BYTES_IN_CHUNK))

\* CODES.iter().position(|&code| code == c)
Position(c) ==
    IF \E i \in 1..Len(CODES) : CODES[i] = c
    THEN Some((CHOOSE i \in 1..Len(CODES) : CODES[i] = c) - 1)
    ELSE None

\* chunk.iter().rev().try_fold(0, |acc, c| position(c).map(|val| acc * RADIX + val)):
\* the symbols are visited from the last to the first, the first one visited
\* that is outside the alphabet ends the fold with InvalidCharacter.
RECURSIVE FoldChunk(_, _, _)
FoldChunk(chunk, i, acc) ==
    IF i = 0 THEN Ok(acc)
    ELSE LET p == Position(chunk[i]) IN
         IF ~p.some THEN Err("Base38", "InvalidCharacter", chunk[i])
         ELSE FoldChunk(chunk, i - 1, acc * RADIX + p.val)

BytesInChunk(len) ==
    CASE len = 2 -> Some(1)
      [] len = 4 -> Some(2)
      [] len = 5 -> Some(3)
      [] OTHER -> None

\* A variant of UnpackLittleEndian that emits the most significant byte first.
UnpackBigEndian(value, n) ==
    LET RECURSIVE go(_, _)
        go(v, k) == IF k = 0 THEN <<>> ELSE go(v \div 256, k - 1) \o <<v % 256>>
    IN  go(value, n)

\* for _ in 0..bytes_in_chunk { push(temp_value & 0xFF); temp_value >>= 8 }
RECURSIVE UnpackLittleEndian(_, _)
UnpackLittleEndian(value, n) ==
    IF n = 0 THEN <<>>
    ELSE <<value % 256>> \o UnpackLittleEndian(value \div 256, n - 1)

\* A variant of DecodeChunk that checks the chunk length before its symbols.
DecodeChunkLengthFirst(chunk) ==
    LET value == FoldChunk(chunk, Len(chunk), 0)
        bytes_in_chunk == BytesInChunk(Len(chunk))
    IN  IF ~bytes_in_chunk.some
        THEN Err("Base38", "InvalidChunkLength", Len(chunk))
        ELSE IF ~IsOk(value) THEN value
        ELSE IF value.val >= Shl(1, 8 * bytes_in_chunk.val)
             THEN Err("Base38", "ValueOutOfRange",
                      <<value.val, Len(chunk), bytes_in_chunk.val>>)
        ELSE Ok(UnpackLittleEndian(value.val, bytes_in_chunk.val))

\* One iteration of decode's loop over chars.chunks(MAX_ENCODED_CHARS_IN_CHUNK).
DecodeChunk(chunk) ==
    LET value == FoldChunk(chunk, Len(chunk), 0)
        bytes_in_chunk == BytesInChunk(Len(chunk))
    IN  IF ~IsOk(value) THEN value
        ELSE IF ~bytes_in_chunk.some
             THEN Err("Base38", "InvalidChunkLength", Len(chunk))
        ELSE IF value.val >= Shl(1, 8 * bytes_in_chunk.val)
             THEN Err("Base38", "ValueOutOfRange",
                      <<value.val, Len(chunk), bytes_in_chunk.val>>)
        ELSE Ok(UnpackLittleEndian(value.val, bytes_in_chunk.val))

RECURSIVE DecodeChunks(_, _)
DecodeChunks(cs, decoded_bytes) ==
    IF cs = <<>> THEN Ok(decoded_bytes)
    ELSE LET r == DecodeChunk(Head(cs)) IN
         IF ~IsOk(r) THEN r
         ELSE DecodeChunks(Tail(cs), decoded_bytes \o r.val)

decode(s) == DecodeChunks(Chunks(s, MAX_ENCODED_CHARS_IN_CHUNK), <<>>)

(***************************************************************************)
(* Bounded inputs of the Base38 calls.                                     *)
(***************************************************************************)
MaxBytes == 4

MaxText == 7

RECURSIVE SeqsUpTo(_, _)
SeqsUpTo(S, n) ==
    IF n = 0 THEN {<<>>}
    ELSE LET shorter == SeqsUpTo(S, n - 1) IN
         shorter \cup {Append(s, x) : s \in {t \in shorter : Len(t) = n - 1}, x \in S}

ByteVals == {0, 1, 18, 52, 86, 120, 255}

ByteSeqs ==
    SeqsUpTo(ByteVals, MaxBytes)
        \cup {<<b>> : b \in 0..255}
        \cup {<<b, 255 - b>> : b \in 0..255}
        \cup {<<b, 255 - b, (b * 7) % 256>> : b \in 0..255}

TextChars == {"0", "Z", ".", "@"}

Base38Texts ==
    SeqsUpTo(TextChars, MaxText)
        \cup { <<"6", "5", "9", "3", "L", "1", "G">>,
               <<"A", "B", "C", "@", "1", "2", "3">>,
               <<"A", "B", "C">>,
               <<"Z", "Z", "Z", "Z", "Z">>,
               <<"A", "a", "#", "0", "0">> }

(***************************************************************************)
(* Base38 calls.                                                           *)
(***************************************************************************)
InitBase38 ==
    /\ op = "init"
    /\ bytes = <<>>
    /\ text = <<>>
    /\ decoded = NoResult
    /\ digits = <<>>
    /\ valid = NoResult
    /\ payload = None
    /\ code = NoResult
    /\ parsed = NoResult
    /\ arg_val = 0
    /\ arg_bits_len = 0
    /\ bit_vec = NoResult

\* encode(&bytes)
Encode ==
    /\ op = "init"
    /\ \E b \in ByteSeqs :
        /\ bytes' = b
        /\ text' = encode(b)
    /\ op' = "encode"
    /\ UNCHANGED <<decoded, digits, valid, payload, code, parsed,
                   arg_val, arg_bits_len, bit_vec>>

\* decode(&encoded) on the string encode returned
DecodeEncoded ==
    /\ op = "encode"
    /\ decoded' = decode(text)
    /\ op' = "decode_encoded"
    /\ UNCHANGED <<bytes, text, digits, valid, payload, code, parsed,
                   arg_val, arg_bits_len, bit_vec>>

\* decode(s) on an arbitrary string
Decode ==
    /\ op = "init"
    /\ \E s \in Base38Texts :
        /\ text' = s
        /\ decoded' = decode(s)
    /\ op' = "decode"
    /\ UNCHANGED <<bytes, digits, valid, payload, code, parsed,
                   arg_val, arg_bits_len, bit_vec>>

NextBase38 == Encode \/ DecodeEncoded \/ Decode

SpecBase38 == InitBase38 /\ [][NextBase38]_vars

(***************************************************************************)
(* Base38 properties.                                                      *)
(***************************************************************************)
Vector1234 == <<18, 52, 86, 120>>

Text6593L1G == <<"6", "5", "9", "3", "L", "1", "G">>

\* C4: decode(encode(b)) succeeds and returns exactly b, for every byte
\* sequence b, the empty one and lengths not divisible by 3 included.
Base38RoundTrip ==
    op = "decode_encoded" => (IsOk(decoded) /\ decoded.val = bytes)

Base38RoundTripWitness ==
    /\ op = "decode_encoded"
    /\ Len(bytes) > MAX_BYTES_IN_CHUNK
    /\ Len(bytes) % MAX_BYTES_IN_CHUNK # 0
    /\ IsOk(decoded)

\* C5: encode([0x12, 0x34, 0x56, 0x78]) is "6593L1G", and decode("6593L1G")
\* succeeds with [0x12, 0x34, 0x56, 0x78].
Base38LiteralVector ==
    /\ (op \in {"encode", "decode_encoded"} /\ bytes = Vector1234) => text = Text6593L1G
    /\ (op \in {"decode", "decode_encoded"} /\ text = Text6593L1G)
           => (IsOk(decoded) /\ decoded.val = Vector1234)

\* The claim's reading of a chunk, written from the alphabet: the value of
\* the chunk with its first symbol least significant.
InAlphabet(c) == \E i \in 1..Len(CODES) : CODES[i] = c

SymbolValue(c) == (CHOOSE i \in 1..Len(CODES) : CODES[i] = c) - 1

RECURSIVE ChunkValue(_)
ChunkValue(chunk) ==
    IF chunk = <<>> THEN 0 ELSE SymbolValue(Head(chunk)) + 38 * ChunkValue(Tail(chunk))

ChunkHasBadSymbol(chunk) == \E i \in 1..Len(chunk) : ~InAlphabet(chunk[i])

ChunkHasBadLength(chunk) == Len(chunk) \notin {2, 4, 5}

ChunkByteCount(chunk) == IF Len(chunk) = 2 THEN 1 ELSE IF Len(chunk) = 4 THEN 2 ELSE 3

ChunkFails(chunk) ==
    \/ ChunkHasBadSymbol(chunk)
    \/ ChunkHasBadLength(chunk)
    \/ ChunkValue(chunk) >= Pow2(8 * ChunkByteCount(chunk))

ChunkError(chunk, r) ==
    IF ChunkHasBadSymbol(chunk)
    THEN /\ IsErrOf(r, "Base38", "InvalidCharacter")
         /\ \E i \in 1..Len(chunk) : ~InAlphabet(chunk[i]) /\ r.val = chunk[i]
    ELSE IF ChunkHasBadLength(chunk)
    THEN IsErrOf(r, "Base38", "InvalidChunkLength") /\ r.val = Len(chunk)
    ELSE IsErrOf(r, "Base38", "ValueOutOfRange")

\* C6: decode splits the text into chunks of 5 symbols (the last may be
\* shorter) and succeeds iff every chunk has only alphabet symbols, has
\* length 2, 4 or 5 and a value below 2^(8k); otherwise it returns the error
\* of the leftmost failing chunk, InvalidCharacter before InvalidChunkLength
\* before ValueOutOfRange.
Base38DecodeErrors ==
    op \in {"decode", "decode_encoded"} =>
        LET cs == Chunks(text, 5)
            failing == {i \in 1..Len(cs) : ChunkFails(cs[i])}
        IN  /\ IsOk(decoded) <=> failing = {}
            /\ failing # {} =>
                 ChunkError(cs[CHOOSE i \in failing : \A j \in failing : i <= j], decoded)
            /\ text = <<"A", "B", "C", "@", "1", "2", "3">>
                 => (IsErrOf(decoded, "Base38", "InvalidCharacter") /\ decoded.val = "@")
            /\ text = <<"A", "B", "C">>
                 => (IsErrOf(decoded, "Base38", "InvalidChunkLength") /\ decoded.val = 3)
            /\ text = <<"Z", "Z", "Z", "Z", "Z">>
                 => IsErrOf(decoded, "Base38", "ValueOutOfRange")

Base38DecodeErrorsWitness ==
    /\ op = "decode"
    /\ Len(text) > 5
    /\ ~ChunkFails(SubSeq(text, 1, 5))
    /\ IsErrOf(decoded, "Base38", "ValueOutOfRange")

(***************************************************************************)
(* verhoeff.rs                                                             *)
(***************************************************************************)
\* A variant of D_TABLE with one mistyped entry: d(1, 9) is 0 instead of 5.
D_TABLE_typo ==
    << <<0, 1, 2, 3, 4, 5, 6, 7, 8, 9>>, <<1, 2, 3, 4, 0, 6, 7, 8, 9, 0>>,
       <<2, 3, 4, 0, 1, 7, 8, 9, 5, 6>>, <<3, 4, 0, 1, 2, 8, 9, 5, 6, 7>>,
       <<4, 0, 1, 2, 3, 9, 5, 6, 7, 8>>, <<5, 9, 8, 7, 6, 0, 4, 3, 2, 1>>,
       <<6, 5, 9, 8, 7, 1, 0, 4, 3, 2>>, <<7, 6, 5, 9, 8, 2, 1, 0, 4, 3>>,
       <<8, 7, 6, 5, 9, 3, 2, 1, 0, 4>>, <<9, 8, 7, 6, 5, 4, 3, 2, 1, 0>> >>

D_TABLE ==
    << <<0, 1, 2, 3, 4, 5, 6, 7, 8, 9>>, <<1, 2, 3, 4, 0, 6, 7, 8, 9, 5>>,
       <<2, 3, 4, 0, 1, 7, 8, 9, 5, 6>>, <<3, 4, 0, 1, 2, 8, 9, 5, 6, 7>>,
       <<4, 0, 1, 2, 3, 9, 5, 6, 7, 8>>, <<5, 9, 8, 7, 6, 0, 4, 3, 2, 1>>,
       <<6, 5, 9, 8, 7, 1, 0, 4, 3, 2>>, <<7, 6, 5, 9, 8, 2, 1, 0, 4, 3>>,
       <<8, 7, 6, 5, 9, 3, 2, 1, 0, 4>>, <<9, 8, 7, 6, 5, 4, 3, 2, 1, 0>> >>

P_TABLE ==
    << <<0, 1, 2, 3, 4, 5, 6, 7, 8, 9>>, <<1, 5, 7, 6, 2, 8, 3, 0, 9, 4>>,
       <<5, 8, 0, 3, 7, 9, 6, 1, 4, 2>>, <<8, 9, 1, 6, 0, 4, 3, 5, 2, 7>>,
       <<9, 4, 5, 3, 1, 2, 6, 8, 7, 0>>, <<4, 2, 8, 6, 5, 7, 3, 9, 0, 1>>,
       <<2, 7, 9, 3, 8, 0, 6, 4, 1, 5>>, <<7, 0, 4, 6, 9, 1, 3, 2, 5, 8>> >>

INV_TABLE == <<0, 4, 3, 2, 1, 5, 6, 7, 8, 9>>

DigitChars == <<"0", "1", "2", "3", "4", "5", "6", "7", "8", "9">>

\* char::to_digit(10): Some(d) for the ASCII digits only.
to_digit(c) ==
    IF \E d \in 0..9 : DigitChars[d + 1] = c
    THEN Some(CHOOSE d \in 0..9 : DigitChars[d + 1] = c)
    ELSE None

\* std::char::from_digit(d, 10): None when d is no decimal digit.
from_digit(d) == IF d \in 0..9 THEN Some(DigitChars[d + 1]) ELSE None

\* s.chars().map(to_digit ... ok_or(InvalidCharacter(c))).collect(): the
\* first non-digit character, from the left, is the error.
string_to_digits(s) ==
    IF s = <<>> THEN Err("Verhoeff", "EmptyInput", 0)
    ELSE IF \E i \in 1..Len(s) : ~to_digit(s[i]).some
    THEN Err("Verhoeff", "InvalidCharacter",
             s[CHOOSE i \in 1..Len(s) :
                   /\ ~to_digit(s[i]).some
                   /\ \A j \in 1..(i - 1) : to_digit(s[j]).some])
    ELSE Ok([i \in 1..Len(s) |-> to_digit(s[i]).val])

\* A variant of PermutedDigit that leaves the digit as it is at every position.
PermutedDigitIdentity(permuted_index, digit) == digit

\* P_TABLE[permuted_index][digit]
PermutedDigit(permuted_index, digit) == P_TABLE[permuted_index + 1][digit + 1]

\* D_TABLE[c][permuted]
Compose(c, permuted) == D_TABLE[c + 1][permuted + 1]

\* for (i, &digit) in digits.iter().rev().enumerate() { c = D[c][P[(i + offset) % 8][digit]] }
\* from reversed position i on, with the accumulator c.
RECURSIVE FoldDigits(_, _, _, _)
FoldDigits(ds, i, c, offset) ==
    IF i = Len(ds) THEN c
    ELSE FoldDigits(ds, i + 1,
                    Compose(c, PermutedDigit((i + offset) % Len(P_TABLE), ds[Len(ds) - i])),
                    offset)

\* A variant of calculate_checksum that uses validate's row index, i % 8.
calculate_checksum_row_i(input) ==
    LET ds == string_to_digits(input) IN
    IF ~IsOk(ds) THEN ds
    ELSE Ok(INV_TABLE[FoldDigits(ds.val, 0, 0, 0) + 1])

calculate_checksum(input) ==
    LET ds == string_to_digits(input) IN
    IF ~IsOk(ds) THEN ds
    ELSE Ok(INV_TABLE[FoldDigits(ds.val, 0, 0, 1) + 1])

validate(input) ==
    LET ds == string_to_digits(input) IN
    IF ~IsOk(ds) THEN ds
    ELSE Ok(FoldDigits(ds.val, 0, 0, 0) = 0)

\* format!("{input}{checksum}")
append_checksum(input) ==
    LET checksum == calculate_checksum(input) IN
    IF ~IsOk(checksum) THEN checksum
    ELSE Ok(input \o <<DigitChars[checksum.val + 1]>>)

(***************************************************************************)
(* Bounded inputs of the check-digit calls: every digit string up to       *)
(* MaxShortDigits digits, and, for the lengths from the row count of       *)
(* P_TABLE (where the row index wraps) to MaxLongDigits, the strings whose *)
(* digits form an arithmetic progression modulo 10; the strings of the     *)
(* unit tests.                                                             *)
(***************************************************************************)
MaxShortDigits == 3

MaxLongDigits == 9

DigitCharSet == {DigitChars[d + 1] : d \in 0..9}

ProgressionDigits(len, a, b) == [i \in 1..len |-> DigitChars[((a + b * i) % 10) + 1]]

TestDigitStrings ==
    { <<"2", "3", "6">>,
      <<"1", "2", "3", "4", "5">>,
      <<"1", "4", "2", "8", "5", "7">>,
      <<"1", "2", "3", "4", "5", "6", "7", "8", "9">>,
      <<"1", "2", "3", "4", "5", "6", "7", "8", "9", "0", "1", "2", "3">> }

DigitStrings ==
    (SeqsUpTo(DigitCharSet, MaxShortDigits) \ {<<>>})
        \cup {ProgressionDigits(len, a, b) :
                 len \in Len(P_TABLE)..MaxLongDigits, a \in 0..9, b \in 0..9}
        \cup TestDigitStrings

(***************************************************************************)
(* Check-digit calls.                                                      *)
(***************************************************************************)
\* append_checksum(s)
AppendChecksum ==
    /\ op = "init"
    /\ \E s \in DigitStrings :
        /\ digits' = s
        /\ text' = append_checksum(s).val
    /\ op' = "append_checksum"
    /\ UNCHANGED <<bytes, decoded, valid, payload, code, parsed,
                   arg_val, arg_bits_len, bit_vec>>

\* validate(append_checksum(s))
ValidateAppended ==
    /\ op = "append_checksum"
    /\ valid' = validate(text)
    /\ op' = "validate"
    /\ UNCHANGED <<bytes, text, decoded, digits, payload, code, parsed,
                   arg_val, arg_bits_len, bit_vec>>

\* validate(s followed by c), for any digit c
ValidateWith ==
    /\ op = "append_checksum"
    /\ \E c \in DigitCharSet :
        /\ text' = digits \o <<c>>
        /\ valid' = validate(digits \o <<c>>)
    /\ op' = "validate_with"
    /\ UNCHANGED <<bytes, decoded, digits, payload, code, parsed,
                   arg_val, arg_bits_len, bit_vec>>

\* validate of append_checksum(s) with one digit replaced by another
ValidateSubstituted ==
    /\ op = "append_checksum"
    /\ \E i \in 1..Len(text), x \in DigitCharSet :
        /\ x # text[i]
        /\ text' = [text EXCEPT ![i] = x]
        /\ valid' = validate([text EXCEPT ![i] = x])
    /\ op' = "validate_substituted"
    /\ UNCHANGED <<bytes, decoded, digits, payload, code, parsed,
                   arg_val, arg_bits_len, bit_vec>>

\* validate of append_checksum(s) with two adjacent, different digits swapped
ValidateTransposed ==
    /\ op = "append_checksum"
    /\ \E i \in 1..(Len(text) - 1) :
        /\ text[i] # text[i + 1]
        /\ text' = [text EXCEPT ![i] = text[i + 1], ![i + 1] = text[i]]
        /\ valid' = validate([text EXCEPT ![i] = text[i + 1], ![i + 1] = text[i]])
    /\ op' = "validate_transposed"
    /\ UNCHANGED <<bytes, decoded, digits, payload, code, parsed,
                   arg_val, arg_bits_len, bit_vec>>

NextVerhoeff ==
    AppendChecksum \/ ValidateAppended \/ ValidateWith \/ ValidateSubstituted \/ ValidateTransposed

SpecVerhoeff == InitBase38 /\ [][NextVerhoeff]_vars

(***************************************************************************)
(* Check-digit properties.                                                 *)
(***************************************************************************)
\* The positions where two strings of the same length differ.
DiffPositions(s, t) == {i \in 1..Len(s) : s[i] # t[i]}

\* C7: for every non-empty digit string s and every digit c, validate(s
\* followed by c) is true iff c is calculate_checksum(s); in particular
\* validate(append_checksum(s)) is true.
CheckDigitConsistency ==
    /\ op = "validate" => (IsOk(valid) /\ valid.val = TRUE)
    /\ op = "validate_with" =>
          /\ IsOk(valid)
          /\ valid.val <=> (to_digit(text[Len(text)]).val = calculate_checksum(digits).val)

CheckDigitConsistencyWitness ==
    /\ op = "validate_with"
    /\ Len(digits) >= Len(P_TABLE)
    /\ SubSeq(text, 1, Len(digits)) = digits
    /\ IsOk(valid) /\ valid.val = TRUE

\* C8: replacing any one digit of append_checksum(s), the check digit
\* included, by any other digit makes validate return false.
SingleSubstitutionDetected ==
    op = "validate_substituted" => (IsOk(valid) /\ valid.val = FALSE)

SingleSubstitutionWitness ==
    /\ op = "validate_substituted"
    /\ DiffPositions(text, append_checksum(digits).val) = {Len(text)}
    /\ IsOk(valid) /\ valid.val = FALSE

\* C9: swapping any two adjacent, different digits of append_checksum(s),
\* the pair ending in the check digit and the pairs where the row index
\* wraps modulo 8 included, makes validate return false.
AdjacentTranspositionDetected ==
    op = "validate_transposed" => (IsOk(valid) /\ valid.val = FALSE)

AdjacentTranspositionWitness ==
    /\ op = "validate_transposed"
    /\ Len(text) > Len(P_TABLE)
    /\ DiffPositions(text, append_checksum(digits).val)
          = {Len(text) - Len(P_TABLE), Len(text) - Len(P_TABLE) + 1}
    /\ IsOk(valid) /\ valid.val = FALSE

(***************************************************************************)
(* bit_utils.rs                                                            *)
(***************************************************************************)
\* A variant of u64_to_bits_be that never fails: it writes the low bits_len
\* bits of val.
u64_to_bits_be_truncating(val, bits_len) ==
    Ok([k \in 1..bits_len |->
           LET i == bits_len - k IN IF i < 64 THEN Shr(val, i) % 2 ELSE 0])

u64_to_bits_be(val, bits_len) ==
    IF val # 0 /\ bits_len < 64 /\ Shr(val, bits_len) # 0
    THEN Err("BitUtils", "ValueOverflow", <<val, bits_len>>)
    ELSE Ok([k \in 1..bits_len |->
                LET i == bits_len - k IN IF i < 64 THEN Shr(val, i) % 2 ELSE 0])

\* bits.iter().fold(0, |acc, bit| (acc << 1) | (bit & 1))
RECURSIVE FoldBits(_, _, _)
FoldBits(bits, k, acc) ==
    IF k > Len(bits) THEN acc ELSE FoldBits(bits, k + 1, acc * 2 + (bits[k] % 2))

bits_to_u64_be(bits) == FoldBits(bits, 1, 0)

\* chunk.iter().enumerate().fold(0u8, |acc, (i, bit)| acc | (bit << (7 - i)))
RECURSIVE PackByte(_, _)
PackByte(chunk, i) ==
    IF i > Len(chunk) THEN 0 ELSE Shl(chunk[i], 8 - i) + PackByte(chunk, i + 1)

bits_to_bytes_be(bits) ==
    LET cs == Chunks(bits, 8) IN [k \in 1..Len(cs) |-> PackByte(cs[k], 1)]

\* for byte in bytes { for i in (0..8).rev() { push((byte >> i) & 1) } }
bytes_to_bits_be(bs) ==
    [k \in 1..(8 * Len(bs)) |-> Shr(bs[((k - 1) \div 8) + 1], 7 - ((k - 1) % 8)) % 2]

(***************************************************************************)
(* Strings: str::len counts UTF-8 bytes, slicing is by byte offset and     *)
(* must fall on character boundaries.                                      *)
(***************************************************************************)
\* "U+00E9" stands for the character e-acute, two bytes in UTF-8.
TwoByteChars == {"U+00E9"}

Utf8Len(c) == IF c \in TwoByteChars THEN 2 ELSE 1

RECURSIVE str_len(_)
str_len(s) == IF s = <<>> THEN 0 ELSE Utf8Len(Head(s)) + str_len(Tail(s))

\* The byte offset at which character i of s starts.
CharStart(s, i) == str_len(SubSeq(s, 1, i - 1))

is_char_boundary(s, off) ==
    off = str_len(s) \/ \E i \in 1..Len(s) : CharStart(s, i) = off

\* The characters of s that lie in the byte range [a, b).
BytesRange(s, a, b) ==
    LET first == CHOOSE i \in 1..(Len(s) + 1) : CharStart(s, i) = a
        last == CHOOSE i \in 0..Len(s) : CharStart(s, i + 1) = b
    IN  SubSeq(s, first, last)

\* A variant of str_get that indexes, &payload[a..b], and aborts where get
\* returns None.
str_index(s, a, b) ==
    IF a <= b /\ b <= str_len(s) /\ is_char_boundary(s, a) /\ is_char_boundary(s, b)
    THEN Some(BytesRange(s, a, b))
    ELSE Panic("byte index out of bounds")

\* payload.get(a..b)
str_get(s, a, b) ==
    IF a <= b /\ b <= str_len(s) /\ is_char_boundary(s, a) /\ is_char_boundary(s, b)
    THEN Some(BytesRange(s, a, b))
    ELSE None

\* &payload[a..]
str_from(s, a) ==
    IF a <= str_len(s) /\ is_char_boundary(s, a)
    THEN Ok(BytesRange(s, a, str_len(s)))
    ELSE Panic("byte index out of bounds")

starts_with(s, prefix) ==
    Len(s) >= Len(prefix) /\ SubSeq(s, 1, Len(prefix)) = prefix

MT == <<"M", "T", ":">>

\* digits.parse::<u64>() on ASCII digits, most significant first
RECURSIVE DigitsValue(_, _)
DigitsValue(s, acc) ==
    IF s = <<>> THEN acc ELSE DigitsValue(Tail(s), acc * 10 + to_digit(Head(s)).val)

\* str::parse::<u64>(): an optional leading '+', then at least one digit and
\* digits only.  The result is the ParseIntError's text on failure.
parse_u64(s) ==
    LET body == IF Len(s) > 1 /\ Head(s) = "+" THEN Tail(s) ELSE s IN
    IF s = <<>> THEN Err("ParseInt", "Empty", "cannot parse integer from empty string")
    ELSE IF \E i \in 1..Len(body) : ~to_digit(body[i]).some
    THEN Err("ParseInt", "InvalidDigit", "invalid digit found in string")
    ELSE Ok(DigitsValue(body, 0))

\* The decimal digits of n, most significant first ("0" for 0).
RECURSIVE DecimalDigits(_)
DecimalDigits(n) ==
    IF n < 10 THEN <<DigitChars[n + 1]>>
    ELSE DecimalDigits(n \div 10) \o <<DigitChars[(n % 10) + 1]>>

\* format!("{:0width$}", n): zero-padded on the left to at least width.
RECURSIVE ZeroPad(_, _)
ZeroPad(s, width) == IF Len(s) >= width THEN s ELSE ZeroPad(<<"0">> \o s, width)

\* A variant of format_dec that writes the number without padding, "{}".
format_dec_unpadded(n, width) == DecimalDigits(n)

format_dec(n, width) == ZeroPad(DecimalDigits(n), width)

(***************************************************************************)
(* The bit-field reader and writer the two layouts derive (big-endian,     *)
(* fields in declaration order, most significant bit first).               *)
(***************************************************************************)
\* Writing an integer field of n bits: the low n bits of v.
WriteBits(v, n) == [k \in 1..n |-> Shr(v, n - k) % 2]

\* Reading an integer field of n bits at bit offset pos.
ReadBits(bits, pos, n) == bits_to_u64_be(SubSeq(bits, pos + 1, pos + n))

(***************************************************************************)
(* payload/common.rs                                                       *)
(***************************************************************************)
CommissioningFlow == {"Standard", "UserIntent", "Custom"}

FlowId(flow) ==
    CASE flow = "Standard" -> 0
      [] flow = "UserIntent" -> 1
      [] flow = "Custom" -> 2

\* A variant of FlowFromId that takes the enum as exhaustive over its two
\* bits: tag 3 reads as Custom.
FlowFromIdExhaustive(id) ==
    CASE id = 0 -> Some("Standard")
      [] id = 1 -> Some("UserIntent")
      [] OTHER -> Some("Custom")


FlowFromId(id) ==
    CASE id = 0 -> Some("Standard")
      [] id = 1 -> Some("UserIntent")
      [] id = 2 -> Some("Custom")
      [] OTHER -> None

(***************************************************************************)
(* payload/qr.rs                                                           *)
(***************************************************************************)
\* QrCodeData::to_bytes
QrCodeData_to_bytes(qr) ==
    Ok(bits_to_bytes_be(
        WriteBits(qr.padding, 4) \o WriteBits(qr.pincode, 27)
            \o WriteBits(qr.discriminator, 12) \o WriteBits(qr.discovery, 8)
            \o WriteBits(FlowId(qr.flow), 2) \o WriteBits(qr.pid, 16)
            \o WriteBits(qr.vid, 16) \o WriteBits(qr.version, 3)))

\* A variant of QrRead that reads the vendor id before the product id.
QrReadVidFirst(bits) ==
    IF Len(bits) < 53 THEN Err("Deku", "Incomplete", 53)
    ELSE IF ~FlowFromId(ReadBits(bits, 51, 2)).some
    THEN Err("Deku", "Parse", ReadBits(bits, 51, 2))
    ELSE IF Len(bits) < 88 THEN Err("Deku", "Incomplete", 88)
    ELSE Ok([padding |-> ReadBits(bits, 0, 4),
             pincode |-> ReadBits(bits, 4, 27),
             discriminator |-> ReadBits(bits, 31, 12),
             discovery |-> ReadBits(bits, 43, 8),
             flow |-> FlowFromId(ReadBits(bits, 51, 2)).val,
             vid |-> ReadBits(bits, 53, 16),
             pid |-> ReadBits(bits, 69, 16),
             version |-> ReadBits(bits, 85, 3)])

\* The derived reader of QrCodeData on the bits of the input: the fields are
\* read in declaration order, a field that runs past the end is Incomplete, a
\* flow tag that is no variant is a Parse error; bits after the record are
\* left unread.
QrRead(bits) ==
    IF Len(bits) < 53 THEN Err("Deku", "Incomplete", 53)
    ELSE IF ~FlowFromId(ReadBits(bits, 51, 2)).some
    THEN Err("Deku", "Parse", ReadBits(bits, 51, 2))
    ELSE IF Len(bits) < 88 THEN Err("Deku", "Incomplete", 88)
    ELSE Ok([padding |-> ReadBits(bits, 0, 4),
             pincode |-> ReadBits(bits, 4, 27),
             discriminator |-> ReadBits(bits, 31, 12),
             discovery |-> ReadBits(bits, 43, 8),
             flow |-> FlowFromId(ReadBits(bits, 51, 2)).val,
             pid |-> ReadBits(bits, 53, 16),
             vid |-> ReadBits(bits, 69, 16),
             version |-> ReadBits(bits, 85, 3)])

\* QrCodeData::from_bytes((&bytes, 0))
QrCodeData_from_bytes(bs) == QrRead(bytes_to_bits_be(bs))

\* parse_from_str after base38::decode(encoded)?: reverse, then read.
QrFromDecoded(decoded_bytes) ==
    IF ~IsOk(decoded_bytes) THEN decoded_bytes
    ELSE QrCodeData_from_bytes(Reverse(decoded_bytes.val))

\* parse_from_str after &payload[3..]
QrFromEncoded(encoded) ==
    IF ~IsOk(encoded) THEN encoded ELSE QrFromDecoded(decode(encoded.val))

QrCodeData_parse_from_str(payload_str) ==
    IF ~starts_with(payload_str, MT) THEN Err("Payload", "InvalidQrCodePrefix", 0)
    ELSE QrFromEncoded(str_from(payload_str, 3))

(***************************************************************************)
(* payload/manual.rs                                                       *)
(***************************************************************************)
\* ManualCodeData::to_bytes: an Option field is written when it is Some,
\* whatever the flag says.
ManualCodeData_to_bytes(m) ==
    Ok(bits_to_bytes_be(
        WriteBits(m.version, 1) \o WriteBits(m.vid_pid_present, 1)
            \o WriteBits(m.discriminator, 4) \o WriteBits(m.pincode_lsb, 14)
            \o WriteBits(m.pincode_msb, 13)
            \o (IF m.vid.some THEN WriteBits(m.vid.val, 16) ELSE <<>>)
            \o (IF m.pid.some THEN WriteBits(m.pid.val, 16) ELSE <<>>)
            \o WriteBits(m.padding, 7)))

\* The derived reader of ManualCodeData on the bits of the input: vid and pid
\* are read iff the flag is 1 and are None otherwise.
ManualRead(bits, present) ==
    IF Len(bits) < 40 + 32 * present THEN Err("Deku", "Incomplete", 40 + 32 * present)
    ELSE Ok([version |-> ReadBits(bits, 0, 1),
             vid_pid_present |-> present,
             discriminator |-> ReadBits(bits, 2, 4),
             pincode_lsb |-> ReadBits(bits, 6, 14),
             pincode_msb |-> ReadBits(bits, 20, 13),
             vid |-> IF present = 1 THEN Some(ReadBits(bits, 33, 16)) ELSE None,
             pid |-> IF present = 1 THEN Some(ReadBits(bits, 49, 16)) ELSE None,
             padding |-> ReadBits(bits, 33 + 32 * present, 7)])

ManualReadBits(bits) == ManualRead(bits, IF Len(bits) >= 2 THEN bits[2] ELSE 0)

\* ManualCodeData::from_bytes((&bytes, 0))
ManualCodeData_from_bytes(bs) == ManualReadBits(bytes_to_bits_be(bs))

\* .parse::<u64>().map_err(|e| InvalidManualCodeDigit(e.to_string()))
ParsedChunk(n) ==
    IF IsOk(n) THEN n ELSE Err("Payload", "InvalidManualCodeDigit", n.val)

\* .ok_or(InvalidManualCodeDigit(payload.to_string()))?.parse::<u64>()
ParseSlice(payload_str, slice) ==
    IF "tag" \in DOMAIN slice THEN slice
    ELSE IF ~slice.some THEN Err("Payload", "InvalidManualCodeDigit", payload_str)
    ELSE ParsedChunk(parse_u64(slice.val))

\* The closure parse_chunk of parse_from_str.
parse_chunk(payload_str, a, b) == ParseSlice(payload_str, str_get(payload_str, a, b))

\* The first failure among results, or Ok of the values when none fails.
RECURSIVE TryAll(_, _)
TryAll(rs, acc) ==
    IF rs = <<>> THEN Ok(acc)
    ELSE IF ~IsOk(Head(rs)) THEN Head(rs)
    ELSE TryAll(Tail(rs), Append(acc, Head(rs).val))

RECURSIVE Flatten(_)
Flatten(ss) == IF ss = <<>> THEN <<>> ELSE Head(ss) \o Flatten(Tail(ss))

Zeros(n) == [k \in 1..n |-> 0]

\* parse_from_str from "Pack and Parse" on: the bit runs are packed into
\* bytes and read through the layout.
ManualFromRuns(runs) ==
    IF ~IsOk(runs) THEN runs
    ELSE ManualCodeData_from_bytes(bits_to_bytes_be(Flatten(runs.val)))

\* parse_from_str from "Bit Stream Construction" on.
ManualFromChunks(chunks, is_long) ==
    IF ~IsOk(chunks) THEN chunks
    ELSE ManualFromRuns(
             TryAll(<<u64_to_bits_be(chunks.val[1], 4),
                      u64_to_bits_be(chunks.val[2], 16),
                      u64_to_bits_be(chunks.val[3], 13)>>
                    \o (IF is_long
                        THEN <<u64_to_bits_be(chunks.val[4], 16),
                               u64_to_bits_be(chunks.val[5], 16)>>
                        ELSE <<Ok(Zeros(32))>>)
                    \o <<Ok(Zeros(7))>>, <<>>))

\* parse_from_str from "Parsing Chunks" on.
ManualFromForm(payload_str, is_long) ==
    ManualFromChunks(
        TryAll(<<parse_chunk(payload_str, 0, 1),
                 parse_chunk(payload_str, 1, 6),
                 parse_chunk(payload_str, 6, 10)>>
               \o (IF is_long
                   THEN <<parse_chunk(payload_str, 10, 15),
                          parse_chunk(payload_str, 15, 20)>>
                   ELSE <<Ok(0), Ok(0)>>), <<>>),
        is_long)

\* parse_from_str from the first digit on.
ManualFromFirstDigit(payload_str, first_digit) ==
    IF ~first_digit.some THEN Err("Payload", "InvalidManualCodeDigit", payload_str)
    ELSE IF first_digit.val > 7 THEN Err("Payload", "InvalidManualCodePrefix", 0)
    ELSE ManualFromForm(payload_str, (first_digit.val \div 4) % 2 = 1)

\* A variant of ManualFromValidated that looks at the prefix digit before the
\* checksum.
ManualFromValidatedPrefixFirst(payload_str, checked) ==
    IF ~IsOk(checked) THEN checked
    ELSE IF payload_str # <<>> /\ to_digit(Head(payload_str)).some
            /\ to_digit(Head(payload_str)).val > 7
    THEN Err("Payload", "InvalidManualCodePrefix", 0)
    ELSE IF ~checked.val THEN Err("Payload", "InvalidManualCodeChecksum", 0)
    ELSE ManualFromFirstDigit(payload_str,
             IF payload_str = <<>> THEN None ELSE to_digit(Head(payload_str)))

\* parse_from_str from the check of verhoeff::validate(payload)? on.
ManualFromValidated(payload_str, checked) ==
    IF ~IsOk(checked) THEN checked
    ELSE IF ~checked.val THEN Err("Payload", "InvalidManualCodeChecksum", 0)
    ELSE ManualFromFirstDigit(payload_str,
             IF payload_str = <<>> THEN None ELSE to_digit(Head(payload_str)))

\* parse_from_str from the length check on.
ManualFromLength(payload_str, len) ==
    IF len # 11 /\ len # 21 THEN Err("Payload", "InvalidManualCodeLength", len)
    ELSE ManualFromValidated(payload_str, validate(payload_str))

ManualCodeData_parse_from_str(payload_str) ==
    ManualFromLength(payload_str, str_len(payload_str))

(***************************************************************************)
(* payload/mod.rs                                                          *)
(***************************************************************************)
\* SetupPayload::new
SetupPayload_new(discriminator, pincode, rendezvous, flow, vid, pid) ==
    [long_discriminator |-> IF discriminator = 0 THEN None ELSE Some(discriminator),
     short_discriminator |-> Shr(discriminator, 8) % 256,
     pincode |-> pincode,
     discovery |-> IF rendezvous.some /\ rendezvous.val # 0 THEN rendezvous ELSE None,
     flow |-> unwrap_or(flow, "Standard"),
     vid |-> vid,
     pid |-> pid]

\* parse_str, the QR branch after QrCodeData::parse_from_str(payload_str)?
PayloadOfQr(container) ==
    IF ~IsOk(container) THEN container
    ELSE Ok(SetupPayload_new(container.val.discriminator,
                             container.val.pincode,
                             Some(container.val.discovery),
                             Some(container.val.flow),
                             Some(container.val.vid),
                             Some(container.val.pid)))

\* A variant of PayloadOfManual that returns the descriptor as
\* SetupPayload::new built it, without the three assignments after it.
PayloadOfManualAsNew(container) ==
    IF ~IsOk(container) THEN container
    ELSE Ok(SetupPayload_new(
                container.val.discriminator,
                Shl(container.val.pincode_msb, 14) + container.val.pincode_lsb,
                None,
                IF container.val.vid_pid_present # 0 THEN Some("Custom") ELSE None,
                IF container.val.vid_pid_present # 0 THEN container.val.vid ELSE None,
                IF container.val.vid_pid_present # 0 THEN container.val.pid ELSE None))

\* parse_str, the manual branch after ManualCodeData::parse_from_str(payload_str)?
PayloadOfManual(container) ==
    IF ~IsOk(container) THEN container
    ELSE Ok([SetupPayload_new(
                 container.val.discriminator,
                 Shl(container.val.pincode_msb, 14) + container.val.pincode_lsb,
                 None,
                 IF container.val.vid_pid_present # 0 THEN Some("Custom") ELSE None,
                 IF container.val.vid_pid_present # 0 THEN container.val.vid ELSE None,
                 IF container.val.vid_pid_present # 0 THEN container.val.pid ELSE None)
             EXCEPT !.short_discriminator = container.val.discriminator,
                    !.long_discriminator = None,
                    !.discovery = None])

\* SetupPayload::parse_str
parse_str(payload_str) ==
    IF starts_with(payload_str, MT)
    THEN PayloadOfQr(QrCodeData_parse_from_str(payload_str))
    ELSE PayloadOfManual(ManualCodeData_parse_from_str(payload_str))

\* A variant of QrString that encodes the record's bytes without reversing
\* them.
QrStringUnreversed(bs) ==
    IF ~IsOk(bs) THEN bs ELSE Ok(MT \o encode(bs.val))

\* to_qr_code_str after qr_data.to_bytes()?: reverse, encode, prepend MT:.
QrString(bs) ==
    IF ~IsOk(bs) THEN bs ELSE Ok(MT \o encode(Reverse(bs.val)))

\* A variant of to_qr_code_str that writes discriminator 0 when the long
\* discriminator is absent.
to_qr_code_str_default_discriminator(self) ==
    IF ~self.vid.some THEN Panic("VID is required for QR code generation")
    ELSE IF ~self.pid.some THEN Panic("PID is required for QR code generation")
    ELSE IF ~self.discovery.some
    THEN Panic("Discovery is required for QR code generation")
    ELSE QrString(QrCodeData_to_bytes(
             [version |-> 0,
              vid |-> self.vid.val,
              pid |-> self.pid.val,
              flow |-> self.flow,
              discovery |-> self.discovery.val,
              discriminator |-> unwrap_or(self.long_discriminator, 0),
              pincode |-> self.pincode,
              padding |-> 0]))

\* SetupPayload::to_qr_code_str
to_qr_code_str(self) ==
    IF ~self.vid.some THEN Panic("VID is required for QR code generation")
    ELSE IF ~self.pid.some THEN Panic("PID is required for QR code generation")
    ELSE IF ~self.discovery.some
    THEN Panic("Discovery is required for QR code generation")
    ELSE IF ~self.long_discriminator.some
    THEN Panic("Long discriminator is required for QR code generation")
    ELSE QrString(QrCodeData_to_bytes(
             [version |-> 0,
              vid |-> self.vid.val,
              pid |-> self.pid.val,
              flow |-> self.flow,
              discovery |-> self.discovery.val,
              discriminator |-> self.long_discriminator.val,
              pincode |-> self.pincode,
              padding |-> 0]))

\* &bits[a..b]
bits_slice(bits, a, b) ==
    IF a <= b /\ b <= Len(bits) THEN Ok(SubSeq(bits, a + 1, b))
    ELSE Panic("range end index out of range for slice")

\* A variant of discriminator_val that always writes the short discriminator.
discriminator_val_short_only(self) == self.short_discriminator

\* The discriminator to_manual_code_str writes into the manual code.
discriminator_val(self) ==
    IF self.short_discriminator = 0 /\ unwrap_or(self.long_discriminator, 0) <= 15
    THEN unwrap_or(self.long_discriminator, 0) % 256
    ELSE self.short_discriminator

\* to_manual_code_str from the checksum on.
ManualStringChecked(code_string, checksum_digit) ==
    IF ~IsOk(checksum_digit) THEN checksum_digit
    ELSE IF ~from_digit(checksum_digit.val).some THEN Panic("unwrap on None")
    ELSE Ok(code_string \o <<from_digit(checksum_digit.val).val>>)

ManualStringOfDigits(code_string) ==
    ManualStringChecked(code_string, calculate_checksum(code_string))

\* to_manual_code_str from the formatting of the three chunks on.
ManualStringOfSlices(slices) ==
    IF ~IsOk(slices) THEN slices
    ELSE ManualStringOfDigits(
             format_dec(bits_to_u64_be(slices.val[1]), 1)
                 \o format_dec(bits_to_u64_be(slices.val[2]), 5)
                 \o format_dec(bits_to_u64_be(slices.val[3]), 4))

\* to_manual_code_str from the slicing of the bits on.
ManualStringOfBits(bits) ==
    ManualStringOfSlices(
        TryAll(<<bits_slice(bits, 0, 4), bits_slice(bits, 4, 20),
                 bits_slice(bits, 20, 33)>>, <<>>))

\* to_manual_code_str after manual_code.to_bytes()?
ManualStringOfBytes(packed_bytes) ==
    IF ~IsOk(packed_bytes) THEN packed_bytes
    ELSE ManualStringOfBits(bytes_to_bits_be(packed_bytes.val))

\* to_manual_code_str after the choice of the discriminator.
ManualStringOf(self, disc) ==
    IF disc > 15 THEN Err("Payload", "DiscriminatorOutOfRange", disc)
    ELSE ManualStringOfBytes(ManualCodeData_to_bytes(
             [version |-> 0,
              vid_pid_present |-> IF self.flow = "Standard" THEN 0 ELSE 1,
              discriminator |-> disc,
              pincode_lsb |-> self.pincode % 16384,
              pincode_msb |-> Shr(self.pincode, 14) % 8192,
              vid |-> IF self.flow = "Standard" THEN Some(0) ELSE self.vid,
              pid |-> IF self.flow = "Standard" THEN Some(0) ELSE self.pid,
              padding |-> 0]))

\* SetupPayload::to_manual_code_str
to_manual_code_str(self) == ManualStringOf(self, discriminator_val(self))

(***************************************************************************)
(* Descriptors given to the facade: the arguments of SetupPayload::new and *)
(* struct literals (every field of SetupPayload is public), at the edges   *)
(* of each field's width.                                                  *)
(***************************************************************************)
standard_payload ==
    [long_discriminator |-> Some(1132),
     short_discriminator |-> 4,
     pincode |-> 69414998,
     discovery |-> Some(4),
     flow |-> "Standard",
     vid |-> Some(65521),
     pid |-> Some(32768)]

Discriminators == {0, 1, 15, 16, 255, 256, 1132, 3840, 4095, 4096, 65535}

Pincodes == {0, 1, 16383, 16384, 69414998, 134217727, 134217728, 134217729}

Rendezvous == {None, Some(0), Some(1), Some(4), Some(255)}

Flows == {None, Some("Standard"), Some("UserIntent"), Some("Custom")}

Vids == {None, Some(0), Some(65521), Some(65535)}

Pids == {None, Some(0), Some(32768)}

LiteralPayloads ==
    [long_discriminator : {None, Some(0), Some(5), Some(1132), Some(4096)},
     short_discriminator : {0, 4, 15, 16, 255},
     pincode : {69414998, 134217729},
     discovery : {None, Some(0), Some(4)},
     flow : CommissioningFlow,
     vid : {None, Some(65521)},
     pid : {None, Some(32768)}]

(***************************************************************************)
(* Facade calls.                                                           *)
(***************************************************************************)
Init == InitBase38

\* SetupPayload::new(discriminator, pincode, rendezvous, flow, vid, pid)
New ==
    /\ op = "init"
    /\ \E d \in Discriminators, pin \in Pincodes, r \in Rendezvous,
          f \in Flows, v \in Vids, p \in Pids :
        payload' = SetupPayload_new(d, pin, r, f, v, p)
    /\ op' = "new"
    /\ UNCHANGED <<bytes, text, decoded, digits, valid, code, parsed,
                   arg_val, arg_bits_len, bit_vec>>

\* SetupPayload { ... }
Literal ==
    /\ op = "init"
    /\ \E p \in LiteralPayloads : payload' = p
    /\ op' = "literal"
    /\ UNCHANGED <<bytes, text, decoded, digits, valid, code, parsed,
                   arg_val, arg_bits_len, bit_vec>>

\* payload.to_qr_code_str()
ToQrCodeStr ==
    /\ op \in {"new", "literal"}
    /\ code' = to_qr_code_str(payload)
    /\ op' = "to_qr_code_str"
    /\ UNCHANGED <<bytes, text, decoded, digits, valid, payload, parsed,
                   arg_val, arg_bits_len, bit_vec>>

\* payload.to_manual_code_str()
ToManualCodeStr ==
    /\ op \in {"new", "literal"}
    /\ code' = to_manual_code_str(payload)
    /\ op' = "to_manual_code_str"
    /\ UNCHANGED <<bytes, text, decoded, digits, valid, payload, parsed,
                   arg_val, arg_bits_len, bit_vec>>

\* SetupPayload::parse_str(&qr_str) on the string to_qr_code_str returned
ParseQrCode ==
    /\ op = "to_qr_code_str"
    /\ IsOk(code)
    /\ text' = code.val
    /\ parsed' = parse_str(code.val)
    /\ op' = "parse_qr_code"
    /\ UNCHANGED <<bytes, decoded, digits, valid, payload, code,
                   arg_val, arg_bits_len, bit_vec>>

\* SetupPayload::parse_str(&manual_str) on the string to_manual_code_str returned
ParseManualCode ==
    /\ op = "to_manual_code_str"
    /\ IsOk(code)
    /\ text' = code.val
    /\ parsed' = parse_str(code.val)
    /\ op' = "parse_manual_code"
    /\ UNCHANGED <<bytes, decoded, digits, valid, payload, code,
                   arg_val, arg_bits_len, bit_vec>>

Next == New \/ Literal \/ ToQrCodeStr \/ ToManualCodeStr \/ ParseQrCode \/ ParseManualCode

Spec == Init /\ [][Next]_vars

(***************************************************************************)
(* Facade properties.                                                      *)
(***************************************************************************)
\* The descriptors C1 speaks of: every field the QR record needs is present
\* and in range, and the short discriminator is the long one shifted by 8.
QrFieldsInRange(p) ==
    /\ p.long_discriminator.some
    /\ p.long_discriminator.val >= 1 /\ p.long_discriminator.val < 4096
    /\ p.short_discriminator = p.long_discriminator.val \div 256
    /\ p.pincode < 134217728
    /\ p.discovery.some
    /\ p.discovery.val >= 1 /\ p.discovery.val <= 255
    /\ p.vid.some /\ p.pid.some
    /\ p.flow \in CommissioningFlow

\* C1: for every descriptor whose required fields are present and in range,
\* to_qr_code_str succeeds and parse_str of its string returns a descriptor
\* equal to it in every field.
QrRoundTrip ==
    /\ (op = "to_qr_code_str" /\ QrFieldsInRange(payload)) => IsOk(code)
    /\ (op = "parse_qr_code" /\ QrFieldsInRange(payload))
          => (IsOk(parsed) /\ parsed.val = payload)

QrRoundTripWitness ==
    /\ op = "parse_qr_code"
    /\ QrFieldsInRange(payload)
    /\ payload.flow = "Custom"
    /\ payload.long_discriminator.val = 4095
    /\ payload.pincode = 134217727
    /\ payload.vid.val = 65535
    /\ IsOk(parsed) /\ parsed.val = payload

\* The descriptors C2 speaks of.
ManualFieldsInRange(p) ==
    /\ p.flow = "Standard"
    /\ p.pincode < 134217728
    /\ p.short_discriminator <= 15

\* C2 as claimed: for every descriptor with flow Standard, pincode < 2^27 and
\* short_discriminator <= 15, to_manual_code_str succeeds and parse_str of its
\* string returns the descriptor's short discriminator and pincode.
ManualRoundTripAsClaimed ==
    /\ (op = "to_manual_code_str" /\ ManualFieldsInRange(payload)) => IsOk(code)
    /\ (op = "parse_manual_code" /\ ManualFieldsInRange(payload))
          => /\ IsOk(parsed)
             /\ parsed.val.short_discriminator = payload.short_discriminator
             /\ parsed.val.pincode = payload.pincode

\* The descriptors whose manual code carries the long discriminator: the
\* short one is 0 and the long one is present and at most 15.
SmallLongDiscriminator(p) ==
    /\ p.short_discriminator = 0
    /\ p.long_discriminator.some
    /\ p.long_discriminator.val <= 15

\* C2, amended: under the same precondition to_manual_code_str succeeds and
\* parse_str of its string returns the descriptor's pincode, and its short
\* discriminator unless the short discriminator is 0 and the long one is
\* present and at most 15: then it returns the long discriminator as the short
\* one.
ManualRoundTrip ==
    /\ (op = "to_manual_code_str" /\ ManualFieldsInRange(payload)) => IsOk(code)
    /\ (op = "parse_manual_code" /\ ManualFieldsInRange(payload))
          => /\ IsOk(parsed)
             /\ parsed.val.pincode = payload.pincode
             /\ parsed.val.short_discriminator =
                   IF SmallLongDiscriminator(payload)
                   THEN payload.long_discriminator.val
                   ELSE payload.short_discriminator

ManualRoundTripWitness ==
    /\ op = "parse_manual_code"
    /\ ManualFieldsInRange(payload)
    /\ SmallLongDiscriminator(payload)
    /\ payload.long_discriminator.val = 15
    /\ IsOk(parsed)
    /\ parsed.val.short_discriminator = 15
    /\ parsed.val.pincode = payload.pincode

QrOfStandardPayload ==
    << "M", "T", ":", "Y", ".", "K", "9", "0", "4", "Q", "I", "1", "4", "3", "L", "H", "1", "3",
       "S", "H", "1", "0" >>

ManualOfStandardPayload == <<"1", "1", "2", "3", "7", "4", "4", "2", "3", "6", "3">>

\* C3: for the reference descriptor (discriminator 1132, short 4, PIN
\* 69414998, VID 0xFFF1, PID 0x8000, discovery 4, flow Standard)
\* to_qr_code_str returns exactly "MT:Y.K904QI143LH13SH10" and
\* to_manual_code_str returns exactly "11237442363".
ReferenceVectors ==
    /\ (op = "to_qr_code_str" /\ payload = standard_payload)
          => (IsOk(code) /\ code.val = QrOfStandardPayload)
    /\ (op = "to_manual_code_str" /\ payload = standard_payload)
          => (IsOk(code) /\ code.val = ManualOfStandardPayload)

ReferenceVectorsWitness ==
    /\ op = "to_qr_code_str"
    /\ payload = standard_payload
    /\ IsOk(code) /\ code.val = QrOfStandardPayload

(***************************************************************************)
(* Strings given to parse_str.                                             *)
(*                                                                         *)
(* Manual codes are composed from chunk values at the edges of the chunk   *)
(* widths, with a right or a wrong check digit, with and without the two   *)
(* VID/PID chunks whatever the first digit says; some are then cut,        *)
(* lengthened, or get one character replaced by a non-digit.  QR strings   *)
(* are MT: followed by the Base38 text of a record (any flow tag, padding  *)
(* and version), of a record cut or lengthened, or by text that is no      *)
(* Base38.  Short arbitrary strings cover the prefix test.                 *)
(***************************************************************************)
MaxArbitrary == 4

Chunk2Values == {0, 1, 16383, 16384, 65535, 65536, 99999}

Chunk3Values == {0, 1, 4236, 8191, 8192, 9999}

VidPidChunks ==
    {<<>>} \cup {format_dec(v, 5) \o format_dec(p, 5) :
                    v \in {0, 65521, 65536}, p \in {32768, 99999}}

ManualBodies ==
    {<<DigitChars[a + 1]>> \o format_dec(b, 5) \o format_dec(c, 4) \o e :
        a \in 0..9, b \in Chunk2Values, c \in Chunk3Values, e \in VidPidChunks}

\* The digit after d.
NextDigit(d) == DigitChars[((to_digit(d).val + 1) % 10) + 1]

CheckedManualCodes == {append_checksum(body).val : body \in ManualBodies}

MischeckedManualCodes ==
    {[s EXCEPT ![Len(s)] = NextDigit(s[Len(s)])] : s \in CheckedManualCodes}

\* The codes that are cut, lengthened or damaged.
SampleManualCodes ==
    {append_checksum(<<DigitChars[a + 1]>> \o format_dec(7442, 5) \o format_dec(4236, 4) \o e).val :
        a \in {1, 5}, e \in {<<>>, format_dec(65521, 5) \o format_dec(32768, 5)}}

NonDigits == {"A", "+", " ", "U+00E9"}

DamagedManualCodes ==
    UNION {
        {[s EXCEPT ![i] = x] : i \in 1..Len(s), x \in NonDigits}
            \cup {SubSeq(s, 1, i - 1) \o <<"U+00E9">> \o SubSeq(s, i + 2, Len(s)) :
                     i \in {1, 2, 6, 10}}
            \cup {SubSeq(s, 1, n) : n \in 0..Len(s)}
            \cup {s \o <<"0">>}
        : s \in SampleManualCodes}

\* The strings of test_invalid_manual_code_errors.
TestManualCodes ==
    {<<"1", "2", "3", "4", "5">>,
     <<"2", "0", "0", "0", "0", "0", "0", "0", "0", "3", "1">>}

ManualInputs ==
    CheckedManualCodes \cup MischeckedManualCodes \cup DamagedManualCodes
        \cup TestManualCodes

\* The 11 bytes of a QR record with the given field values, as read after
\* the byte reversal.
QrRecordBytes(padding, pincode, discriminator, discovery, flow_id, pid, vid, version) ==
    bits_to_bytes_be(
        WriteBits(padding, 4) \o WriteBits(pincode, 27) \o WriteBits(discriminator, 12)
            \o WriteBits(discovery, 8) \o WriteBits(flow_id, 2) \o WriteBits(pid, 16)
            \o WriteBits(vid, 16) \o WriteBits(version, 3))

QrRecords ==
    {QrRecordBytes(pad, pin, d, m, f, ids[1], ids[2], ver) :
        pad \in {0, 15}, pin \in {0, 69414998, 134217727}, d \in {0, 1132, 4095},
        m \in {0, 4}, f \in 0..3, ids \in {<<0, 0>>, <<32768, 65521>>, <<65535, 65535>>},
        ver \in {0, 7}}

SampleQrRecords ==
    {QrRecordBytes(0, 69414998, 1132, 4, f, 32768, 65521, 0) : f \in {0, 3}}

QrInputs ==
    {MT \o encode(Reverse(r)) : r \in QrRecords}
        \cup {MT \o encode(Reverse(SubSeq(r, 1, n))) : r \in SampleQrRecords, n \in 0..11}
        \cup {MT \o encode(Reverse(r \o <<x>>)) : r \in SampleQrRecords, x \in {0, 255}}
        \cup {MT \o encode(Reverse(<<x>> \o r)) : r \in SampleQrRecords, x \in {0, 255}}
        \cup {MT \o t : t \in SeqsUpTo(TextChars \cup {"U+00E9"}, 3)}

ArbitraryInputs == SeqsUpTo({"M", "T", ":", "0", "U+00E9"}, MaxArbitrary)

(***************************************************************************)
(* parse_str on a string from outside.                                     *)
(***************************************************************************)
\* SetupPayload::parse_str(s), s meant as a manual code
ParseManualInput ==
    /\ op = "init"
    /\ \E s \in ManualInputs :
        /\ text' = s
        /\ parsed' = parse_str(s)
    /\ op' = "parse_str"
    /\ UNCHANGED <<bytes, decoded, digits, valid, payload, code,
                   arg_val, arg_bits_len, bit_vec>>

\* SetupPayload::parse_str(s), s meant as a QR string
ParseQrInput ==
    /\ op = "init"
    /\ \E s \in QrInputs :
        /\ text' = s
        /\ parsed' = parse_str(s)
    /\ op' = "parse_str"
    /\ UNCHANGED <<bytes, decoded, digits, valid, payload, code,
                   arg_val, arg_bits_len, bit_vec>>

\* SetupPayload::parse_str(s), s any short string
ParseArbitraryInput ==
    /\ op = "init"
    /\ \E s \in ArbitraryInputs :
        /\ text' = s
        /\ parsed' = parse_str(s)
    /\ op' = "parse_str"
    /\ UNCHANGED <<bytes, decoded, digits, valid, payload, code,
                   arg_val, arg_bits_len, bit_vec>>

\* payload.to_qr_code_str() on the descriptor parse_str returned for a QR
\* string
RegenerateQrCode ==
    /\ op = "parse_str"
    /\ starts_with(text, MT)
    /\ IsOk(parsed)
    /\ payload' = parsed.val
    /\ code' = to_qr_code_str(parsed.val)
    /\ op' = "regenerate_qr_code"
    /\ UNCHANGED <<bytes, text, decoded, digits, valid, parsed,
                   arg_val, arg_bits_len, bit_vec>>

NextParse == ParseManualInput \/ ParseQrInput \/ ParseArbitraryInput \/ RegenerateQrCode

SpecParse == Init /\ [][NextParse]_vars

(***************************************************************************)
(* parse_str properties.                                                   *)
(***************************************************************************)
\* C10: parse_str is total: for every input string it returns a descriptor or
\* a typed error and never aborts, on the QR path and on the manual path.
ParseStrTotal ==
    op = "parse_str" => (IsOk(parsed) \/ IsErr(parsed))

\* A manual code of 11 characters whose first digit announces the long form:
\* the VID chunk lies beyond the end of the string.
ParseStrTotalWitness ==
    /\ op = "parse_str"
    /\ str_len(text) = 11
    /\ IsOk(validate(text)) /\ validate(text).val
    /\ to_digit(text[1]).val \in 4..7
    /\ IsErrOf(parsed, "Payload", "InvalidManualCodeDigit")

\* The inputs made of decimal digits only.
IsDigitString(s) == \A i \in 1..Len(s) : s[i] \in DigitCharSet

\* C11: on an input of decimal digits, parse_str checks the length, then the
\* checksum, then the prefix digit: a length n other than 11 and 21 gives
\* InvalidManualCodeLength(n) whatever the content, a string that does not
\* validate gives InvalidManualCodeChecksum whatever its first digit, and a
\* first digit 8 or 9 gives InvalidManualCodePrefix.
ManualValidationOrder ==
    (op = "parse_str" /\ IsDigitString(text)) =>
        IF Len(text) # 11 /\ Len(text) # 21
        THEN parsed = Err("Payload", "InvalidManualCodeLength", Len(text))
        ELSE IF ~validate(text).val
        THEN parsed = Err("Payload", "InvalidManualCodeChecksum", 0)
        ELSE to_digit(text[1]).val \in {8, 9}
                 => parsed = Err("Payload", "InvalidManualCodePrefix", 0)

\* A code of 21 digits with first digit 9 and a wrong check digit: the
\* checksum is reported, not the prefix.
ManualValidationOrderWitness ==
    /\ op = "parse_str"
    /\ IsDigitString(text)
    /\ Len(text) = 21
    /\ text[1] = "9"
    /\ ~validate(text).val
    /\ parsed = Err("Payload", "InvalidManualCodeChecksum", 0)

\* One of the first ten characters, which the chunks [0,1), [1,6) and [6,10)
\* cover, is no decimal digit.
NonDigitInChunk(s) ==
    \E i \in 1..Len(s) : i <= 10 /\ s[i] \notin DigitCharSet

\* C12: an input without the MT: prefix, of length 11 or 21, one of whose chunk
\* substrings holds a character that is no digit, fails with the payload error
\* InvalidManualCodeDigit.
ManualNonDigitIsDigitError ==
    (/\ op = "parse_str"
     /\ ~starts_with(text, MT)
     /\ str_len(text) \in {11, 21}
     /\ NonDigitInChunk(text))
        => IsErrOf(parsed, "Payload", "InvalidManualCodeDigit")

\* The ranges C13 speaks of: pincode < 2^27 and, when present,
\* long_discriminator < 2^12.
DescriptorInRange(p) ==
    /\ p.pincode < 134217728
    /\ p.long_discriminator.some => p.long_discriminator.val < 4096

\* C13: every descriptor SetupPayload::new returns, whatever its arguments, and
\* every descriptor a successful parse_str returns on the QR path or on the
\* manual path has pincode < 2^27 and, when the long discriminator is present,
\* long_discriminator < 2^12.
DescriptorInvariant ==
    /\ op = "new" => DescriptorInRange(payload)
    /\ (op \in {"parse_qr_code", "parse_manual_code"} /\ IsOk(parsed))
          => DescriptorInRange(parsed.val)

\* One of the four fields the QR record needs is absent.
QrFieldMissing(p) ==
    \/ ~p.vid.some
    \/ ~p.pid.some
    \/ ~p.discovery.some
    \/ ~p.long_discriminator.some

\* C14: to_qr_code_str aborts when vid, pid, discovery or long_discriminator
\* is absent, and returns no typed error for it; when the four are present it
\* does not abort.
QrMissingFieldPanics ==
    op = "to_qr_code_str" =>
        /\ QrFieldMissing(payload) => (IsPanic(code) /\ ~IsErr(code))
        /\ ~QrFieldMissing(payload) => ~IsPanic(code)

\* The descriptor lacks the long discriminator only, and the call aborts with
\* the message of that field.
QrMissingFieldPanicsWitness ==
    /\ op = "to_qr_code_str"
    /\ payload.vid.some /\ payload.pid.some /\ payload.discovery.some
    /\ ~payload.long_discriminator.some
    /\ code = Panic("Long discriminator is required for QR code generation")

\* The value C15 says is chosen: the long discriminator (absent counted as 0)
\* when the short one is 0 and the long one is at most 15, the short one
\* otherwise.
ChosenDiscriminator(p) ==
    IF p.short_discriminator = 0 /\ (~p.long_discriminator.some \/ p.long_discriminator.val <= 15)
    THEN (IF p.long_discriminator.some THEN p.long_discriminator.val ELSE 0)
    ELSE p.short_discriminator

\* The 4-bit discriminator a manual code carries: the low 2 bits of the
\* first digit, then the top 2 bits of the 16-bit second chunk.
WrittenDiscriminator(s) ==
    (to_digit(s[1]).val % 4) * 4 + (DigitsValue(SubSeq(s, 2, 6), 0) \div 16384)

\* C15: to_manual_code_str writes the chosen discriminator v into the code;
\* for v > 15 it returns DiscriminatorOutOfRange(v) and no string, and for
\* v <= 15 it never returns that error.
DiscriminatorDuality ==
    op = "to_manual_code_str" =>
        IF ChosenDiscriminator(payload) > 15
        THEN code = Err("Payload", "DiscriminatorOutOfRange", ChosenDiscriminator(payload))
        ELSE /\ ~IsErrOf(code, "Payload", "DiscriminatorOutOfRange")
             /\ IsOk(code) => WrittenDiscriminator(code.val) = ChosenDiscriminator(payload)

\* The short discriminator is 0 and the long one is 5: the code carries 5.
DiscriminatorDualityWitness ==
    /\ op = "to_manual_code_str"
    /\ payload.short_discriminator = 0
    /\ payload.long_discriminator = Some(5)
    /\ IsOk(code)
    /\ WrittenDiscriminator(code.val) = 5

(***************************************************************************)
(* bit_utils calls.  The values are below 2^31; the widths run past 64.    *)
(***************************************************************************)
MaxWidth == 66

\* The values of the unit tests, and the values around a power of two.
U64Values ==
    {0, 1, 2, 11, 15, 16, 255, 256, 65535, 65536, 1073741823, 1073741824, 2147483647}

\* u64_to_bits_be(v, w)
U64ToBitsBe ==
    /\ op = "init"
    /\ \E v \in U64Values, w \in 0..MaxWidth :
        /\ arg_val' = v
        /\ arg_bits_len' = w
        /\ bit_vec' = u64_to_bits_be(v, w)
    /\ op' = "u64_to_bits_be"
    /\ UNCHANGED <<bytes, text, decoded, digits, valid, payload, code, parsed>>

NextBits == U64ToBitsBe

SpecBits == InitBase38 /\ [][NextBits]_vars

\* v >= 2^w, for a value v below 2^31.
NeedsMoreBits(v, w) == w < 31 /\ v >= Pow2(w)

\* C16: for a width w < 64, u64_to_bits_be(v, w) fails with
\* ValueOverflow{value: v, bits: w} iff v >= 2^w; a successful result has
\* exactly w entries, each 0 or 1, most significant first, and for w <= 64
\* bits_to_u64_be of it is v.
U64ToBitsContract ==
    op = "u64_to_bits_be" =>
        /\ arg_bits_len < 64 =>
              IF NeedsMoreBits(arg_val, arg_bits_len)
              THEN bit_vec = Err("BitUtils", "ValueOverflow", <<arg_val, arg_bits_len>>)
              ELSE IsOk(bit_vec)
        /\ IsOk(bit_vec) =>
              /\ Len(bit_vec.val) = arg_bits_len
              /\ \A k \in 1..arg_bits_len : bit_vec.val[k] \in {0, 1}
              /\ \A k \in 1..arg_bits_len :
                    bit_vec.val[k] = 1 <=>
                        (arg_bits_len - k < 31
                            /\ (arg_val \div Pow2(arg_bits_len - k)) % 2 = 1)
              /\ arg_bits_len <= 64 => bits_to_u64_be(bit_vec.val) = arg_val

\* 16 does not fit 4 bits.
U64ToBitsContractWitness ==
    /\ op = "u64_to_bits_be"
    /\ arg_val = 16
    /\ arg_bits_len = 4
    /\ bit_vec = Err("BitUtils", "ValueOverflow", <<16, 4>>)

\* C17: parse_str accepts a manual code only when its length matches the
\* form bit 2 of its first digit selects: length 21 for a first digit 4..7,
\* length 11 for a first digit 0..3.
ManualFormMatchesLength ==
    (op = "parse_str" /\ ~starts_with(text, MT) /\ IsOk(parsed)) =>
        IF to_digit(text[1]).val \in 4..7
        THEN Len(text) = 21
        ELSE Len(text) = 11

\* The number the digits s[from..to] write (positions counted from 1).
ChunkNumber(s, from, to) == DigitsValue(SubSeq(s, from, to), 0)

\* The first digit carries the VID/PID flag (value 4).
LongForm(s) == to_digit(s[1]).val \in 4..7

\* The chunks fit their fields: b < 2^16, c < 2^13 and, in the long form,
\* chunk4 and chunk5 < 2^16.
ChunksFit(s) ==
    /\ ChunkNumber(s, 2, 6) < 65536
    /\ ChunkNumber(s, 7, 10) < 8192
    /\ LongForm(s) => (ChunkNumber(s, 11, 15) < 65536 /\ ChunkNumber(s, 16, 20) < 65536)

\* The descriptor C18 gives for the manual code s.
ManualDescriptor(s) ==
    [long_discriminator |-> None,
     short_discriminator |->
         (to_digit(s[1]).val % 4) * 4 + (ChunkNumber(s, 2, 6) \div 16384),
     pincode |-> ChunkNumber(s, 7, 10) * 16384 + (ChunkNumber(s, 2, 6) % 16384),
     discovery |-> None,
     flow |-> IF LongForm(s) THEN "Custom" ELSE "Standard",
     vid |-> IF LongForm(s) THEN Some(ChunkNumber(s, 11, 15)) ELSE None,
     pid |-> IF LongForm(s) THEN Some(ChunkNumber(s, 16, 20)) ELSE None]

\* The manual codes that pass the checks before the chunks are turned into
\* bits: digits only, 11 or 21 of them, a valid check digit, a first digit
\* at most 7, and 21 digits when the first digit announces the long form.
ReachesBitStream(s) ==
    /\ IsDigitString(s)
    /\ Len(s) \in {11, 21}
    /\ validate(s).val
    /\ to_digit(s[1]).val <= 7
    /\ LongForm(s) => Len(s) = 21

\* C18: a successful parse_str of a manual code with first digit a and chunks
\* b, c returns short_discriminator = (a mod 4) * 4 + (b div 2^14), pincode =
\* c * 2^14 + (b mod 2^14), no long discriminator and no discovery mask, with
\* vid = pid = None and flow Standard in the short form and vid = chunk4, pid =
\* chunk5, flow Custom in the long form; it succeeds only if the chunks fit
\* their fields, and a chunk that does not fit gives ValueOverflow.
ManualParseMapping ==
    /\ (op = "parse_str" /\ ~starts_with(text, MT) /\ IsOk(parsed))
          => (ChunksFit(text) /\ parsed.val = ManualDescriptor(text))
    /\ (op = "parse_str" /\ ReachesBitStream(text) /\ ~ChunksFit(text))
          => IsErrOf(parsed, "BitUtils", "ValueOverflow")

\* A long-form code with first digit 7 and second chunk 65535: the
\* discriminator is 15 and the VID and PID are those of the code.
ManualParseMappingWitness ==
    /\ op = "parse_str"
    /\ Len(text) = 21
    /\ text[1] = "7"
    /\ ChunkNumber(text, 2, 6) = 65535
    /\ IsOk(parsed)
    /\ parsed.val.short_discriminator = 15
    /\ parsed.val.flow = "Custom"
    /\ parsed.val.vid = Some(65521)
    /\ parsed.val.pid = Some(32768)

\* The characters of a QR string after the MT: prefix.
QrRemainder(s) == SubSeq(s, 4, Len(s))

\* The 2-bit flow tag of the record read from the reversed bytes: bits 51 and
\* 52 of the record lie in its seventh byte, which is the seventh byte from
\* the end of the decoded sequence.
QrFlowTag(decoded_bytes) == (decoded_bytes[Len(decoded_bytes) - 6] \div 8) % 4

\* C19: parse_str on an input starting with MT: succeeds iff the remainder
\* Base38-decodes, the decoded sequence has at least 11 bytes and the flow tag
\* of the record is 0, 1 or 2; otherwise it returns an error.
QrParseAcceptance ==
    (op = "parse_str" /\ starts_with(text, MT)) =>
        /\ IsOk(parsed) <=>
              /\ IsOk(decode(QrRemainder(text)))
              /\ Len(decode(QrRemainder(text)).val) >= 11
              /\ QrFlowTag(decode(QrRemainder(text)).val) \in {0, 1, 2}
        /\ ~IsOk(parsed) => IsErr(parsed)

\* A record of 11 bytes whose flow tag is 3 is refused with a Parse error.
QrParseAcceptanceWitness ==
    /\ op = "parse_str"
    /\ starts_with(text, MT)
    /\ IsOk(decode(QrRemainder(text)))
    /\ Len(decode(QrRemainder(text)).val) = 11
    /\ QrFlowTag(decode(QrRemainder(text)).val) = 3
    /\ IsErrOf(parsed, "Deku", "Parse")

\* C20: every string a successful to_manual_code_str returns, for any flow, is
\* a well-formed manual code: its length is 21 when its first digit carries
\* the VID/PID flag and 11 otherwise, its first digit is at most 7, it
\* validates, and parse_str of it returns a descriptor.
ManualStringWellFormed ==
    /\ (op = "to_manual_code_str" /\ IsOk(code)) =>
          /\ Len(code.val) = (IF LongForm(code.val) THEN 21 ELSE 11)
          /\ to_digit(code.val[1]).val <= 7
          /\ validate(code.val) = Ok(TRUE)
    /\ op = "parse_manual_code" => IsOk(parsed)

\* The QR strings C21 speaks of: MT: and the Base38 text of exactly 11 bytes
\* whose record has padding 0 (the top 4 bits of the first byte read) and
\* version 0 (the low 3 bits of the last byte read); the bytes are read in
\* reverse order.
QrRecordIsPlain(s) ==
    /\ IsOk(decode(QrRemainder(s)))
    /\ Len(decode(QrRemainder(s)).val) = 11
    /\ decode(QrRemainder(s)).val[11] \div 16 = 0
    /\ decode(QrRemainder(s)).val[1] % 8 = 0

\* C21: for every accepted QR string of exactly 11 bytes with padding 0 and
\* version 0, a discriminator field of 0 or a discovery mask of 0 included,
\* to_qr_code_str of the descriptor parse_str returned completes without
\* aborting and returns the same string.
QrParseThenGenerate ==
    (op = "regenerate_qr_code" /\ QrRecordIsPlain(text)) => code = Ok(text)

====
